---- MODULE Spec2Model ----
(***************************************************************************)
(* Model of the trip-planner chat backend:                                 *)
(*   app/routers/chat.py   chat_endpoint, clear_session, the sessions map  *)
(*   app/services/ai.py    chat (tool-use loop), process_tool_call         *)
(*   app/services/rentals.py search_booking, search_airbnb, search_all     *)
(*                                                                         *)
(* Python lists are objects: `sessions.get(session_id, [])` hands chat the *)
(* very list that is stored, and chat appends to it in place.  The model   *)
(* therefore keeps a heap of list objects and lets the session map and the *)
(* turns hold references into it.                                          *)
(*                                                                         *)
(* The server is one asyncio event loop.  A coroutine runs until it        *)
(* awaits something that is not ready; `running` names the request whose   *)
(* coroutine holds the loop (0: the loop is free).  The model-service call *)
(* in chat is a blocking call of the synchronous client, so a turn keeps   *)
(* the loop across it; a turn yields only inside search_all.               *)
(*                                                                         *)
(* Specifications:                                                         *)
(*   Spec           the server with any callers                            *)
(*   SpecExclusive  callers keep at most one turn in flight per session id *)
(*   SpecNoFail     SpecExclusive where no call of a turn fails            *)
(*   SpecFormat     the formatting of process_tool_call on every           *)
(*                  SearchResult up to MaxListings listings a source       *)
(***************************************************************************)
EXTENDS Integers, Sequences, FiniteSets, TLC

\* ---------------------------------------------------------------- bounds
MaxSlots    == 2   \* request slots (turns that can be in flight together)
MaxRequests == 2   \* chat requests received in one run
MaxRounds   == 1   \* tool_use stops of the model service in one run
MaxHotels   == 2   \* hotels in a non-empty provider-A response body
MaxListings == 7   \* listings of one source in a SearchResult to be formatted

Slots == 1..MaxSlots

\* ------------------------------------------------------------ identifiers
\* A session id is a pair <<kind, n>>.  NoneId is the absent request field,
\* EmptyId the empty string (falsy in Python), NamedId a caller-chosen
\* non-empty string, Uuid(n) the n-th value drawn from uuid.uuid4().
NoneId  == <<"none", 0>>
EmptyId == <<"str", 0>>
NamedId == <<"str", 1>>
Uuid(n) == <<"uuid", n>>

\* Python truthiness of `request.session_id`
Truthy(id) == id # NoneId /\ id # EmptyId

\* ---------------------------------------------------------------- values
None == "<None>"            \* Python None in an optional listing field
NoTag == <<"none", 0, 0>>   \* absent text / absent tool_use id

SENTINEL_UNKNOWN_TOOL == "Unknown tool"
NO_RESULTS == "No results found. Try a different location or dates."
FALLBACK_TEXT == <<"I couldn't generate a response.", 0, 0>>

VARIABLES
    sessions,   \* chat.py `sessions`: session id -> reference to a list object
    heap,       \* list objects: heap[r] is the message sequence of object r
    turn,       \* per request slot: the locals of chat_endpoint / chat / search_all
    running,    \* slot whose coroutine holds the event loop, 0 if none
    nreq,       \* number of chat requests received
    nuuid,      \* number of uuid4 values drawn
    ntool,      \* number of responses with stop reason tool_use so far
    api_key,    \* whether RAPIDAPI_KEY is set in the environment
    cleared     \* the last DELETE: was the id in the store, and the response

vars == <<sessions, heap, turn, running, nreq, nuuid, ntool, api_key, cleared>>

\* ------------------------------------------------------- provider-A data
Missing == "<missing>"      \* a key the provider's JSON does not carry

\* provider-A hotel records (the `property` object of one hotel); the values
\* are taken to be of the types RentalListing declares
FullHotel ==
    [name |-> "Hotel A", price |-> "120", reviewScore |-> "8",
     photoUrl |-> "a.jpg", countryCode |-> "us", ufi |-> "77"]
BareHotel ==
    [name |-> Missing, price |-> Missing, reviewScore |-> Missing,
     photoUrl |-> Missing, countryCode |-> Missing, ufi |-> Missing]

\* well-formed searchHotels bodies: n hotels, complete and incomplete alternating
HotelBody(n) == [i \in 1..n |-> IF i % 2 = 1 THEN FullHotel ELSE BareHotel]
HotelBodies == {HotelBody(0), HotelBody(MaxHotels)}

\* what one outbound GET of provider A can come back with
DestOutcomes == {"exception", "non200", "malformed", "no_data", "ok"}
HotelsOutcomes ==
    [kind : {"exception", "non200", "malformed"}, body : {<<>>}]
        \cup [kind : {"ok"}, body : HotelBodies]
\* what the GET of provider B can come back with
AirbnbOutcomes == {"exception", "non200", "ok"}

Min(a, b) == IF a < b THEN a ELSE b
Take(s, n) == SubSeq(s, 1, Min(n, Len(s)))

\* dict.get(key, default)
Get(v, default) == IF v = Missing THEN default ELSE v

\* rentals.py: the RentalListing built from one hotel record
Normalize(prop, location) ==
    [source    |-> "booking.com",
     name      |-> Get(prop.name, "Unknown"),
     location  |-> location,
     price     |-> Get(prop.price, None),
     rating    |-> Get(prop.reviewScore, None),
     url       |-> "https://www.booking.com/hotel/" \o Get(prop.countryCode, "")
                       \o "/" \o Get(prop.ufi, "") \o ".html",
     image_url |-> IF prop.photoUrl # Missing THEN prop.photoUrl ELSE None]

\* rentals.py: the listings search_booking returns for a well-formed body
BookingListings(body, location) ==
    LET hotels == Take(body, 10)
    IN  [i \in 1..Len(hotels) |-> Normalize(hotels[i], location)]

\* ------------------------------------------------ formatting (ai.py)
Line(kind, n, a, b) == [kind |-> kind, n |-> n, text |-> <<a, b>>]

\* Python truthiness of an optional string field
Shown(v) == v # None /\ v # ""

\* the lines of one listing: only the first carries the number i
EntryLines(i, listing) ==
    <<Line("entry", i, listing.name, "")>>
    \o (IF Shown(listing.price) THEN <<Line("price", 0, listing.price, "")>> ELSE <<>>)
    \o (IF Shown(listing.rating) THEN <<Line("rating", 0, listing.rating, "/10")>> ELSE <<>>)
    \o (IF Shown(listing.location) THEN <<Line("location", 0, listing.location, "")>> ELSE <<>>)
    \o (IF Shown(listing.url) THEN <<Line("link", 0, listing.url, "")>> ELSE <<>>)

RECURSIVE EntriesFrom(_, _)
EntriesFrom(listings, i) ==
    IF i > Len(listings) THEN <<>>
    ELSE EntryLines(i, listings[i]) \o EntriesFrom(listings, i + 1)

\* str.title() of the two source keys
Title(source) == IF source = "booking" THEN "Booking" ELSE "Airbnb"

\* (variant) the loop over `listings` without the slice [:5]
SourceLinesNoCap(source, listings) ==
    IF listings = <<>> THEN <<>>
    ELSE <<Line("heading", 0, Title(source), " Results:")>>
         \o EntriesFrom(listings, 1)

\* (variant) the heading is appended before the test `if listings:`
SourceLinesHeadingFirst(source, listings) ==
    <<Line("heading", 0, Title(source), " Results:")>>
    \o EntriesFrom(Take(listings, 5), 1)

SourceLines(source, listings) ==
    IF listings = <<>> THEN <<>>
    ELSE <<Line("heading", 0, Title(source), " Results:")>>
         \o EntriesFrom(Take(listings, 5), 1)

\* process_tool_call: the text returned for a search_all result
FormatResults(results) ==
    LET formatted == SourceLines("booking", results.booking)
                     \o SourceLines("airbnb", results.airbnb)
    IN  IF formatted = <<>> THEN <<Line("plain", 0, NO_RESULTS, "")>>
        ELSE formatted

UnknownToolResult == <<Line("plain", 0, SENTINEL_UNKNOWN_TOOL, "")>>

\* ------------------------------------------------ model-service responses
\* A response of messages.create: its stop reason, the name of its tool_use
\* block ("" if it has none), whether it has a text block, and the id of
\* the tool_use block.  Texts and ids are tagged <<kind, request, call>>.
TOOL_NAME == "search_rentals"
Response(stop, tool, hasText, req, call) ==
    [stop_reason |-> stop,
     tool        |-> tool,
     text        |-> IF hasText THEN <<"text", req, call>> ELSE NoTag,
     id          |-> IF tool = "" THEN NoTag ELSE <<"toolu", req, call>>]

NoResponse == [stop_reason |-> "", tool |-> "", text |-> NoTag, id |-> NoTag]

\* the responses the model service can give to call number `call` of request
\* `req`: a final answer and, while it has stopped for tool use fewer than
\* MaxRounds times in the run, a tool_use stop: an invocation of the search
\* tool or of another name, or no tool_use block at all (with or without a
\* text block)
Responses(req, call, rounds) ==
    {Response("end_turn", "", TRUE, req, call)}
    \cup (IF rounds < MaxRounds
          THEN {Response("tool_use", TOOL_NAME, TRUE, req, call),
                Response("tool_use", "other_tool", TRUE, req, call),
                Response("tool_use", "", TRUE, req, call),
                Response("tool_use", "", FALSE, req, call)}
          ELSE {})

\* next(block for block in response.content if block.type == "tool_use", None)
HasToolUseBlock(response) == response.tool # ""

\* next(block.text for block in response.content if hasattr(block, "text"), default)
TextContent(response) ==
    IF response.text # NoTag THEN response.text ELSE FALLBACK_TEXT

\* ------------------------------------------------------------- messages
UserMessage(req) ==
    [role |-> "user", type |-> "text", text |-> <<"msg", req, 0>>,
     tool |-> "", id |-> NoTag, result |-> <<>>]
\* {"role": "assistant", "content": response.content}
ToolUseMessage(response) ==
    [role |-> "assistant", type |-> "content", text |-> response.text,
     tool |-> response.tool, id |-> response.id, result |-> <<>>]
\* {"role": "user", "content": [{"type": "tool_result", ...}]}
ToolResultMessage(id, tool_result) ==
    [role |-> "user", type |-> "tool_result", text |-> NoTag,
     tool |-> "", id |-> id, result |-> tool_result]
\* {"role": "assistant", "content": text_content}
FinalMessage(text_content) ==
    [role |-> "assistant", type |-> "text", text |-> text_content,
     tool |-> "", id |-> NoTag, result |-> <<>>]

\* ------------------------------------------------------------ turn state
\* A sub-task of search_all: where its coroutine stands and what it returned.
\*   "none"  not created      "ready"  created by create_task, not yet run
\*   "dest" / "hotels" / "get"  suspended in the named outbound GET
\*   "done"  returned `result`      "raised"  ended with an exception
NoTask == [pc |-> "none", result |-> <<>>]

IdleTurn ==
    [pc         |-> "idle",     \* position of the request's coroutine
     req        |-> 0,          \* number of the request (tags its messages)
     session_id |-> NoneId,     \* chat_endpoint's session_id
     messages   |-> 0,          \* reference of chat's `messages` list
     response   |-> NoResponse, \* chat's `response`
     tool_result |-> <<>>,      \* chat's `tool_result`
     booking    |-> NoTask,     \* search_all's booking_task
     airbnb     |-> NoTask,     \* search_all's airbnb_task
     results    |-> [booking |-> <<>>, airbnb |-> <<>>],  \* search_all's return value
     reply      |-> [response |-> NoTag, session_id |-> NoneId],  \* the ChatResponse
     \* history variables (not program state)
     generated  |-> FALSE,      \* was session_id drawn from uuid4 for this request
     present0   |-> FALSE,      \* was session_id in the store when the turn began
     hist0      |-> <<>>,       \* the history stored for session_id when the turn began
     own        |-> <<>>,       \* what this turn alone appended, in order
     returned   |-> <<>>,       \* updated_messages as chat returned it
     responses  |-> <<>>,       \* the responses the model service gave this turn
     calls      |-> 0,          \* calls of messages.create, failed ones included
     tools      |-> 0,          \* calls of process_tool_call
     searches   |-> 0,          \* calls of search_all
     error      |-> ""]         \* which step raised, for a failed turn

Stored(id) == IF id \in DOMAIN sessions THEN heap[sessions[id]] ELSE <<>>

\* turns whose coroutine has not finished
InFlight(t) == turn[t].pc \notin {"idle", "done", "failed"}
\* a sub-task that is still to run or is suspended in a GET
Pending(task) == task.pc \in {"ready", "dest", "hotels", "get"}

\* slots that can take a new request: the coroutine of the last one has
\* finished and so have its sub-tasks
Free(t) == ~InFlight(t) /\ ~Pending(turn[t].airbnb)
\* (variant) a server that handles one request at a time
FreeSlotWhenIdle == IF \A t \in Slots : Free(t) THEN 1 ELSE 0

\* a new request takes the lowest free slot (0: there is none)
FreeSlot == IF \E t \in Slots : Free(t)
            THEN CHOOSE t \in Slots : Free(t) /\ \A u \in Slots : Free(u) => t <= u
            ELSE 0

\* no DELETE request has been answered yet
NoDelete == [present |-> FALSE, response |-> [status |-> ""]]

Init ==
    /\ sessions = [k \in {} |-> 0]
    /\ heap = <<>>
    /\ turn = [t \in Slots |-> IdleTurn]
    /\ running = 0
    /\ nreq = 0
    /\ nuuid = 0
    /\ ntool = 0
    /\ api_key \in BOOLEAN
    /\ cleared = NoDelete

\* ------------------------------------------------------------ chat.py
\* the session ids a caller can put in a request
SuppliedIds == {NoneId, EmptyId, NamedId} \cup DOMAIN sessions

\* (variant) the id is drawn once, when the module is loaded
SessionIdDrawnOnce(supplied) == IF Truthy(supplied) THEN supplied ELSE Uuid(1)

\* (variant) the supplied id is ignored: session_id = str(uuid.uuid4())
SessionIdAlwaysNew(supplied) == Uuid(nuuid + 1)

\* session_id = request.session_id or str(uuid.uuid4())
SessionIdFor(supplied) == IF Truthy(supplied) THEN supplied ELSE Uuid(nuuid + 1)

\* (variant) one default list shared by all calls: sessions.get(session_id, EMPTY)
SessionsGetSharedDefault(session_id) ==
    IF session_id \in DOMAIN sessions THEN sessions[session_id] ELSE 1

\* messages = sessions.get(session_id, []): the stored list object itself,
\* or a list object that did not exist before
SessionsGet(session_id) ==
    IF session_id \in DOMAIN sessions THEN sessions[session_id] ELSE Len(heap) + 1

\* (variant) the messages are put in front: list.insert(0, ...) for append
AppendToFront(h, ref, msgs) == [h EXCEPT ![ref] = msgs \o @]

\* list.append on the object a reference names
AppendTo(h, ref, msgs) == [h EXCEPT ![ref] = @ \o msgs]

\* POST /api/chat up to the first call of the model service: pick the session
\* id, fetch the history list, enter chat and append the user message.
chat_endpoint(t, supplied) ==
    /\ running = 0
    /\ t = FreeSlot
    /\ nreq < MaxRequests
    /\ supplied \in SuppliedIds
    /\ LET session_id == SessionIdFor(supplied)
           present    == session_id \in DOMAIN sessions
           messages   == SessionsGet(session_id)
           heap1      == IF messages > Len(heap) THEN Append(heap, <<>>) ELSE heap
           req        == nreq + 1
       IN  /\ heap' = AppendTo(heap1, messages, <<UserMessage(req)>>)
           /\ turn' = [turn EXCEPT ![t] =
                  [IdleTurn EXCEPT !.pc = "create", !.req = req,
                                   !.session_id = session_id,
                                   !.messages = messages,
                                   !.generated = ~Truthy(supplied),
                                   !.present0 = present,
                                   !.hist0 = heap1[messages],
                                   !.own = <<UserMessage(req)>>]]
           /\ nreq' = req
           /\ nuuid' = IF Truthy(supplied) THEN nuuid ELSE nuuid + 1
    /\ running' = t
    /\ UNCHANGED <<sessions, ntool, api_key, cleared>>

\* the except clause of chat_endpoint: the turn ends with HTTP 500
Fail(t, step) == [turn EXCEPT ![t].pc = "failed", ![t].error = step]

\* the ids a caller can put in a DELETE request
DeletableIds == {NamedId} \cup DOMAIN sessions

\* (variant) sessions.clear() for `del sessions[session_id]`
SessionsClear(session_id) == [k \in {} |-> 0]

\* if session_id in sessions: del sessions[session_id]
SessionsDel(session_id) == [k \in DOMAIN sessions \ {session_id} |-> sessions[k]]

\* return {"status": "cleared"}
CLEARED == [status |-> "cleared"]

\* DELETE /api/chat/{session_id}: the handler has no await, it runs in one
\* step of the loop
clear_session(session_id) ==
    /\ running = 0
    /\ session_id \in DeletableIds
    /\ sessions' = SessionsDel(session_id)
    /\ cleared' = [present |-> session_id \in DOMAIN sessions, response |-> CLEARED]
    /\ UNCHANGED <<heap, turn, running, nreq, nuuid, ntool, api_key>>

\* ------------------------------------------------------------ ai.py chat
\* anthropic.messages.create(...) returns: a blocking call, the turn keeps the
\* event loop
messages_create(t, response) ==
    /\ running = t
    /\ turn[t].pc = "create"
    /\ response \in Responses(turn[t].req, turn[t].calls + 1, ntool)
    /\ turn' = [turn EXCEPT ![t].response = response,
                            ![t].responses = Append(@, response),
                            ![t].calls = @ + 1,
                            ![t].pc = "while"]
    /\ ntool' = IF response.stop_reason = "tool_use" THEN ntool + 1 ELSE ntool
    /\ UNCHANGED <<sessions, heap, running, nreq, nuuid, api_key, cleared>>

\* anthropic.messages.create(...) raises (service unreachable, API error)
messages_create_raises(t) ==
    /\ running = t
    /\ turn[t].pc = "create"
    /\ turn' = [Fail(t, "model") EXCEPT ![t].calls = @ + 1]
    /\ running' = 0
    /\ UNCHANGED <<sessions, heap, nreq, nuuid, ntool, api_key, cleared>>

\* (variant) the loop without `if not tool_use_block: break`
while_tool_use_no_break(t) ==
    /\ running = t
    /\ turn[t].pc = "while"
    /\ turn' = [turn EXCEPT ![t].pc =
           IF turn[t].response.stop_reason = "tool_use" THEN "tool" ELSE "final"]
    /\ UNCHANGED <<sessions, heap, running, nreq, nuuid, ntool, api_key, cleared>>

\* while response.stop_reason == "tool_use": ... if not tool_use_block: break
while_tool_use(t) ==
    /\ running = t
    /\ turn[t].pc = "while"
    /\ turn' = [turn EXCEPT ![t].pc =
           IF turn[t].response.stop_reason = "tool_use"
              /\ HasToolUseBlock(turn[t].response)
           THEN "tool" ELSE "final"]
    /\ UNCHANGED <<sessions, heap, running, nreq, nuuid, ntool, api_key, cleared>>

\* ------------------------------------------------ ai.py process_tool_call
\* tool_input is taken to conform to the tool's input_schema, so building
\* SearchParams from it does not raise
LOCATION == "Omaha"     \* tool_input["location"]

\* (variant) process_tool_call without the test of the tool name
IsAnyTool(tool_name) == TRUE

\* if tool_name == "search_rentals":
IsSearchTool(tool_name) == tool_name = TOOL_NAME

\* process_tool_call(tool_use_block.name, tool_use_block.input).  An unknown
\* name returns the sentinel at once.  search_rentals enters search_all, which
\* creates both tasks and reaches `await booking_task`.
process_tool_call(t) ==
    /\ running = t
    /\ turn[t].pc = "tool"
    /\ IF IsSearchTool(turn[t].response.tool)
       THEN /\ turn' = [turn EXCEPT ![t].tools = @ + 1,
                                    ![t].searches = @ + 1,
                                    ![t].booking = [pc |-> "ready", result |-> <<>>],
                                    ![t].airbnb = [pc |-> "ready", result |-> <<>>],
                                    ![t].pc = "await_booking"]
            /\ running' = t
       ELSE /\ turn' = [turn EXCEPT ![t].tools = @ + 1,
                                    ![t].tool_result = UnknownToolResult,
                                    ![t].pc = "append"]
            /\ running' = t
    /\ UNCHANGED <<sessions, heap, nreq, nuuid, ntool, api_key, cleared>>

\* ------------------------------------------------------------ rentals.py
Returned(listings) == [pc |-> "done", result |-> listings]
Raised == [pc |-> "raised", result |-> <<>>]
Awaiting(get) == [pc |-> get, result |-> <<>>]

\* (variant) search_booking without the test of the access key
BookingStartNoKeyTest(key) == [pc |-> "dest", result |-> <<>>]

\* search_booking from its start to the first GET: without RAPIDAPI_KEY it
\* returns [] before any request is made
BookingStart(key) == IF ~key THEN Returned(<<>>) ELSE Awaiting("dest")

\* search_booking from the searchDestination response to the second GET.
\* Nothing catches an exception of client.get or of .json().
AfterDest(outcome) ==
    CASE outcome = "exception" -> Raised
      [] outcome = "non200"    -> Returned(<<>>)
      [] outcome = "malformed" -> Raised
      [] outcome = "no_data"   -> Returned(<<>>)
      [] outcome = "ok"        -> Awaiting("hotels")

\* search_booking from the searchHotels response to its return
AfterHotels(outcome, location) ==
    CASE outcome.kind = "exception" -> Raised
      [] outcome.kind = "non200"    -> Returned(<<>>)
      [] outcome.kind = "malformed" -> Raised
      [] outcome.kind = "ok"        -> Returned(BookingListings(outcome.body, location))

\* search_airbnb from the response of its GET to its return: the extraction
\* loop never adds a listing, and every exception is caught
AfterAirbnb(outcome) ==
    CASE outcome = "exception" -> Returned(<<>>)
      [] outcome = "non200"    -> Returned(<<>>)
      [] outcome = "ok"        -> Returned(<<>>)

\* chat suspends in `await booking_task`.  The two tasks were put on the
\* loop's ready queue by create_task, one after the other, so the loop runs
\* the first step of booking_task, then the first step of airbnb_task, and
\* only then anything else.
search_booking_start(t) ==
    /\ running = t
    /\ turn[t].booking.pc = "ready"
    /\ turn' = [turn EXCEPT ![t].booking = BookingStart(api_key)]
    /\ UNCHANGED <<sessions, heap, running, nreq, nuuid, ntool, api_key, cleared>>

search_airbnb_start(t) ==
    /\ running = t
    /\ turn[t].airbnb.pc = "ready"
    /\ turn[t].booking.pc # "ready"
    /\ turn' = [turn EXCEPT ![t].airbnb = Awaiting("get")]
    /\ running' = 0
    /\ UNCHANGED <<sessions, heap, nreq, nuuid, ntool, api_key, cleared>>

dest_response(t, outcome) ==
    /\ running = 0
    /\ turn[t].booking.pc = "dest"
    /\ outcome \in DestOutcomes
    /\ turn' = [turn EXCEPT ![t].booking = AfterDest(outcome)]
    /\ UNCHANGED <<sessions, heap, running, nreq, nuuid, ntool, api_key, cleared>>

hotels_response(t, outcome) ==
    /\ running = 0
    /\ turn[t].booking.pc = "hotels"
    /\ outcome \in HotelsOutcomes
    /\ turn' = [turn EXCEPT ![t].booking = AfterHotels(outcome, LOCATION)]
    /\ UNCHANGED <<sessions, heap, running, nreq, nuuid, ntool, api_key, cleared>>

airbnb_response(t, outcome) ==
    /\ running = 0
    /\ turn[t].airbnb.pc = "get"
    /\ outcome \in AirbnbOutcomes
    /\ turn' = [turn EXCEPT ![t].airbnb = AfterAirbnb(outcome)]
    /\ UNCHANGED <<sessions, heap, running, nreq, nuuid, ntool, api_key, cleared>>

\* search_all's return value
SearchResult(booking_results, airbnb_results) ==
    [booking |-> booking_results, airbnb |-> airbnb_results]

\* search_all returns; process_tool_call formats the result and returns to chat
ToolReturns(t, results) ==
    [turn EXCEPT ![t].results = results,
                 ![t].tool_result = FormatResults(results),
                 ![t].pc = "append"]

\* booking_results = await booking_task.  An exception of the task is raised
\* here and leaves search_all, process_tool_call and chat; chat_endpoint turns
\* it into HTTP 500.  If airbnb_task is already done, `await airbnb_task`
\* does not suspend.
await_booking_task(t) ==
    /\ running = 0
    /\ turn[t].pc = "await_booking"
    /\ turn[t].booking.pc \in {"done", "raised"}
    /\ IF turn[t].booking.pc = "raised"
       THEN /\ turn' = Fail(t, "tool")
            /\ running' = 0
       ELSE IF turn[t].airbnb.pc = "done"
       THEN /\ turn' = ToolReturns(t, SearchResult(turn[t].booking.result,
                                                  turn[t].airbnb.result))
            /\ running' = t
       ELSE /\ turn' = [turn EXCEPT ![t].pc = "await_airbnb"]
            /\ running' = 0
    /\ UNCHANGED <<sessions, heap, nreq, nuuid, ntool, api_key, cleared>>

\* airbnb_results = await airbnb_task, when it had to suspend
await_airbnb_task(t) ==
    /\ running = 0
    /\ turn[t].pc = "await_airbnb"
    /\ turn[t].airbnb.pc = "done"
    /\ turn' = ToolReturns(t, SearchResult(turn[t].booking.result,
                                          turn[t].airbnb.result))
    /\ running' = t
    /\ UNCHANGED <<sessions, heap, nreq, nuuid, ntool, api_key, cleared>>

\* ------------------------------------------------ ai.py chat, continued
\* (variant) the tool result is appended before the assistant message
ToolRoundResultFirst(response, tool_result) ==
    <<ToolResultMessage(response.id, tool_result), ToolUseMessage(response)>>

\* the two messages a tool round appends
ToolRound(response, tool_result) ==
    <<ToolUseMessage(response), ToolResultMessage(response.id, tool_result)>>

append_tool_messages(t) ==
    /\ running = t
    /\ turn[t].pc = "append"
    /\ LET msgs == ToolRound(turn[t].response, turn[t].tool_result)
       IN  /\ heap' = AppendTo(heap, turn[t].messages, msgs)
           /\ turn' = [turn EXCEPT ![t].own = @ \o msgs, ![t].pc = "create"]
    /\ UNCHANGED <<sessions, running, nreq, nuuid, ntool, api_key, cleared>>

\* sessions[session_id] = updated_messages
SessionsPut(session_id, ref) ==
    [k \in DOMAIN sessions \cup {session_id} |->
        IF k = session_id THEN ref ELSE sessions[k]]

\* chat appends the final assistant message and returns; chat_endpoint stores
\* the returned list under session_id and answers
chat_return(t) ==
    /\ running = t
    /\ turn[t].pc = "final"
    /\ LET text_content == TextContent(turn[t].response)
           final == FinalMessage(text_content)
       IN  /\ heap' = AppendTo(heap, turn[t].messages, <<final>>)
           /\ sessions' = SessionsPut(turn[t].session_id, turn[t].messages)
           /\ turn' = [turn EXCEPT ![t].own = Append(@, final),
                                   ![t].returned = heap'[turn[t].messages],
                                   ![t].reply = [response |-> text_content,
                                                 session_id |-> turn[t].session_id],
                                   ![t].pc = "done"]
    /\ running' = 0
    /\ UNCHANGED <<nreq, nuuid, ntool, api_key, cleared>>

\* ------------------------------------------------------------ the system
Next ==
    \/ \E t \in Slots, supplied \in SuppliedIds : chat_endpoint(t, supplied)
    \/ \E t \in Slots : \E response \in Responses(turn[t].req, turn[t].calls + 1, ntool) :
           messages_create(t, response)
    \/ \E t \in Slots : messages_create_raises(t)
    \/ \E t \in Slots : while_tool_use(t)
    \/ \E t \in Slots : process_tool_call(t)
    \/ \E t \in Slots : search_booking_start(t)
    \/ \E t \in Slots : search_airbnb_start(t)
    \/ \E t \in Slots, outcome \in DestOutcomes : dest_response(t, outcome)
    \/ \E t \in Slots, outcome \in HotelsOutcomes : hotels_response(t, outcome)
    \/ \E t \in Slots, outcome \in AirbnbOutcomes : airbnb_response(t, outcome)
    \/ \E t \in Slots : await_booking_task(t)
    \/ \E t \in Slots : await_airbnb_task(t)
    \/ \E t \in Slots : append_tool_messages(t)
    \/ \E t \in Slots : chat_return(t)
    \/ \E session_id \in DeletableIds : clear_session(session_id)

Spec == Init /\ [][Next]_vars

\* The design assumes at most one in-flight turn per session id (spec, section
\* 5).  SpecExclusive is the system with callers that keep to it: no chat
\* request arrives for a session id while a turn on that id is in flight.
TurnOn(session_id) == \E u \in Slots : InFlight(u) /\ turn[u].session_id = session_id

chat_endpoint_exclusive(t, supplied) ==
    /\ ~TurnOn(SessionIdFor(supplied))
    /\ chat_endpoint(t, supplied)

NextExclusive ==
    \/ \E t \in Slots, supplied \in SuppliedIds : chat_endpoint_exclusive(t, supplied)
    \/ \E t \in Slots : \E response \in Responses(turn[t].req, turn[t].calls + 1, ntool) :
           messages_create(t, response)
    \/ \E t \in Slots : messages_create_raises(t)
    \/ \E t \in Slots : while_tool_use(t)
    \/ \E t \in Slots : process_tool_call(t)
    \/ \E t \in Slots : search_booking_start(t)
    \/ \E t \in Slots : search_airbnb_start(t)
    \/ \E t \in Slots, outcome \in DestOutcomes : dest_response(t, outcome)
    \/ \E t \in Slots, outcome \in HotelsOutcomes : hotels_response(t, outcome)
    \/ \E t \in Slots, outcome \in AirbnbOutcomes : airbnb_response(t, outcome)
    \/ \E t \in Slots : await_booking_task(t)
    \/ \E t \in Slots : await_airbnb_task(t)
    \/ \E t \in Slots : append_tool_messages(t)
    \/ \E t \in Slots : chat_return(t)
    \/ \E session_id \in DeletableIds : clear_session(session_id)

SpecExclusive == Init /\ [][NextExclusive]_vars

\* SpecNoFail is SpecExclusive in an environment where no turn fails: the
\* model service answers every call, and no outbound call of provider A raises
\* or returns a body that is not JSON.
DestOutcomesNoRaise == DestOutcomes \ {"exception", "malformed"}
HotelsOutcomesNoRaise == {o \in HotelsOutcomes : o.kind \notin {"exception", "malformed"}}

NextNoFail ==
    \/ \E t \in Slots, supplied \in SuppliedIds : chat_endpoint_exclusive(t, supplied)
    \/ \E t \in Slots : \E response \in Responses(turn[t].req, turn[t].calls + 1, ntool) :
           messages_create(t, response)
    \/ \E t \in Slots : while_tool_use(t)
    \/ \E t \in Slots : process_tool_call(t)
    \/ \E t \in Slots : search_booking_start(t)
    \/ \E t \in Slots : search_airbnb_start(t)
    \/ \E t \in Slots, outcome \in DestOutcomesNoRaise : dest_response(t, outcome)
    \/ \E t \in Slots, outcome \in HotelsOutcomesNoRaise : hotels_response(t, outcome)
    \/ \E t \in Slots, outcome \in AirbnbOutcomes : airbnb_response(t, outcome)
    \/ \E t \in Slots : await_booking_task(t)
    \/ \E t \in Slots : await_airbnb_task(t)
    \/ \E t \in Slots : append_tool_messages(t)
    \/ \E t \in Slots : chat_return(t)
    \/ \E session_id \in DeletableIds : clear_session(session_id)

SpecNoFail == Init /\ [][NextNoFail]_vars

\* ------------------------------------------- formatting of a SearchResult
\* process_tool_call formats whatever search_all returns, a value of type
\* dict[str, list[RentalListing]].  SpecFormat is the formatting part of the
\* program started on every such value up to MaxListings listings a source:
\* a turn whose search_all is about to return, both sub-tasks done.
\* Complete records carry their position in their name.
HotelAt(i, pattern) ==
    IF (i + pattern) % 2 = 1
    THEN [FullHotel EXCEPT !.name = "Hotel " \o ToString(i)]
    ELSE BareHotel

ListingsOf(source, n, pattern) ==
    [i \in 1..n |-> [Normalize(HotelAt(i, pattern), LOCATION) EXCEPT !.source = source]]

ListingSeqs(source) ==
    {ListingsOf(source, n, pattern) : n \in 0..MaxListings, pattern \in {0, 1}}

SearchResults ==
    {SearchResult(b, a) : b \in ListingSeqs("booking.com"), a \in ListingSeqs("airbnb")}

\* the first turn of a run, suspended in `await airbnb_task`
SearchingTurn ==
    LET response == Response("tool_use", TOOL_NAME, TRUE, 1, 1)
    IN  [IdleTurn EXCEPT !.pc = "await_airbnb", !.req = 1,
                         !.session_id = Uuid(1), !.messages = 1,
                         !.response = response, !.responses = <<response>>,
                         !.generated = TRUE, !.own = <<UserMessage(1)>>,
                         !.calls = 1, !.tools = 1, !.searches = 1]

InitFormat ==
    /\ sessions = [k \in {} |-> 0]
    /\ heap = << <<UserMessage(1)>> >>
    /\ \E results \in SearchResults :
           turn = [t \in Slots |->
                     IF t = 1
                     THEN [SearchingTurn EXCEPT !.booking = Returned(results.booking),
                                                !.airbnb = Returned(results.airbnb)]
                     ELSE IdleTurn]
    /\ running = 0
    /\ nreq = 1
    /\ nuuid = 1
    /\ ntool = 1
    /\ api_key = TRUE
    /\ cleared = NoDelete

NextFormat ==
    \/ await_airbnb_task(1)
    \/ append_tool_messages(1)

SpecFormat == InitFormat /\ [][NextFormat]_vars

\* ------------------------------------------------------------ claims
Ended(t) == turn[t].pc \in {"done", "failed"}
FailsNow(t) == turn[t].pc # "failed" /\ turn'[t].pc = "failed"

\* C1: when a step of a chat turn fails, the history stored for the turn's
\* session after the failure is the history stored before the turn plus the
\* user's message, with no tool-use or tool-result message of the failed turn
\* (nothing is asked when no history is stored for the id after the failure).
C1_FailedTurnCommitsOnlyUserMessage ==
    [][\A t \in Slots :
         (FailsNow(t) /\ turn[t].session_id \in DOMAIN sessions')
            => Stored(turn[t].session_id)' =
                   turn[t].hist0 \o <<UserMessage(turn[t].req)>>]_vars

\* C2: when the provider-A task has raised, search_all still returns: the turn
\* does not fail in the tool call, and the provider-B entry of the result is
\* what the provider-B task returned.
C2_AggregatorIsolatesProviderAFault ==
    \A t \in Slots :
        (turn[t].booking.pc = "raised" /\ turn[t].pc # "await_booking")
            => /\ turn[t].error # "tool"
               /\ turn[t].results.airbnb = turn[t].airbnb.result

\* C3: search_booking never raises to its caller, whatever its two outbound
\* calls come back with.
C3_SearchBookingNeverRaises ==
    \A t \in Slots : turn[t].booking.pc # "raised"

\* -- vocabulary of the orchestration-loop claims
\* a response that invokes a tool: stop reason tool_use and a tool_use block
Invocation(r) == r.stop_reason = "tool_use" /\ r.tool # ""
\* a response that stops for tool use but carries no tool_use block
NoPayload(r) == r.stop_reason = "tool_use" /\ r.tool = ""
\* the answer text of a response: its text block, else the fixed default
AnswerOf(r) == IF r.text # NoTag THEN r.text ELSE FALLBACK_TEXT
\* the final assistant message for a response
AnswerMessage(r) ==
    [role |-> "assistant", type |-> "text", text |-> AnswerOf(r),
     tool |-> "", id |-> NoTag, result |-> <<>>]
\* the number of invocations among the first n responses of a turn
InvocationsIn(rs, n) == Cardinality({i \in 1..n : Invocation(rs[i])})
SearchesIn(rs, n) ==
    Cardinality({i \in 1..n : Invocation(rs[i]) /\ rs[i].tool = TOOL_NAME})
\* the turn is in DONE, or on its way there with its next step enabled
ReachesDone(t) ==
    /\ turn[t].pc \in {"while", "final", "done"}
    /\ turn[t].pc = "while" => ENABLED while_tool_use(t)
    /\ turn[t].pc = "final" => ENABLED chat_return(t)

\* C4: a turn for which the model service is scripted to answer
\* [tool invocation, final text] (it has answered a prefix of that script and
\* has not failed) ends in DONE after exactly two model calls and one tool
\* call, and returns the initial history plus, in order, the user message, the
\* assistant tool-use message, the tool-result message and the final text.
ScriptedToolThenText(t) ==
    LET rs == turn[t].responses
    IN  /\ turn[t].error # "model"
        /\ Len(rs) \in {1, 2}
        /\ Invocation(rs[1])
        /\ Len(rs) = 2 => rs[2].stop_reason # "tool_use"

C4_OneToolRound ==
    \A t \in Slots :
        (Ended(t) /\ ScriptedToolThenText(t)) =>
            LET rs == turn[t].responses
                h  == turn[t].returned
                n  == Len(turn[t].hist0)
            IN  /\ turn[t].pc = "done"
                /\ turn[t].calls = 2
                /\ turn[t].tools = 1
                /\ Len(h) = n + 4
                /\ SubSeq(h, 1, n) = turn[t].hist0
                /\ h[n + 1] = UserMessage(turn[t].req)
                /\ h[n + 2] = ToolUseMessage(rs[1])
                /\ h[n + 3].type = "tool_result" /\ h[n + 3].id = rs[1].id
                /\ h[n + 4] = AnswerMessage(rs[2])

\* C5: a turn whose first model response is not a tool invocation ends in DONE
\* after exactly one model call and no tool call, and returns the initial
\* history plus the user message and the final assistant text.
FirstNotInvocation(t) ==
    Len(turn[t].responses) >= 1 /\ ~Invocation(turn[t].responses[1])

C5_NoToolTurn ==
    \A t \in Slots :
        FirstNotInvocation(t) =>
            /\ ReachesDone(t)
            /\ turn[t].calls = 1
            /\ turn[t].tools = 0
            /\ turn[t].pc = "done" =>
                   turn[t].returned =
                       turn[t].hist0 \o <<UserMessage(turn[t].req),
                                          AnswerMessage(turn[t].responses[1])>>

C5_Witness ==
    \E t \in Slots :
        /\ FirstNotInvocation(t)
        /\ turn[t].pc = "done"
        /\ turn[t].hist0 # <<>>

\* C6: when a response has stop reason tool_use but no tool_use block, the
\* loop exits at once: no tool is executed and no further model call is made
\* for it, nothing but the final assistant message (the response's text, else
\* the default text) is appended for it, and the turn reaches DONE.
C6_MissingPayloadExits ==
    \A t \in Slots :
        LET rs == turn[t].responses
            n  == Len(rs)
        IN  (n >= 1 /\ NoPayload(rs[n])) =>
                /\ ReachesDone(t)
                /\ turn[t].calls = n
                /\ turn[t].tools = InvocationsIn(rs, n - 1)
                /\ Len(turn[t].own) =
                       1 + 2 * (n - 1) + (IF turn[t].pc = "done" THEN 1 ELSE 0)
                /\ turn[t].pc = "done" =>
                       /\ turn[t].returned = turn[t].hist0 \o turn[t].own
                       /\ turn[t].own[Len(turn[t].own)] = AnswerMessage(rs[n])
                       /\ turn[t].reply.response = AnswerOf(rs[n])

C6_Witness ==
    \E t \in Slots :
        /\ turn[t].pc = "done"
        /\ NoPayload(turn[t].response)
        /\ turn[t].response.text = NoTag
        /\ turn[t].reply.response = FALLBACK_TEXT

\* C7: when the model invokes a tool that is not search_rentals, the tool
\* result is the "Unknown tool" sentinel, search_all is not called, the turn
\* does not fail in the tool call, and the loop appends the tool-use message
\* and a tool-result message with the invocation's id and the sentinel before
\* it calls the model again.
UnknownInvocation(r) == Invocation(r) /\ r.tool # TOOL_NAME

C7_UnknownToolSentinel ==
    \A t \in Slots :
        LET r  == turn[t].response
            rs == turn[t].responses
            h  == heap[turn[t].messages]
        IN  UnknownInvocation(r) =>
                /\ turn[t].pc \in {"while", "tool", "append", "create", "failed"}
                /\ turn[t].error # "tool"
                /\ turn[t].searches = SearchesIn(rs, Len(rs))
                /\ turn[t].pc \in {"append", "create", "failed"} =>
                       turn[t].tool_result = <<Line("plain", 0, "Unknown tool", "")>>
                /\ turn[t].pc \in {"create", "failed"} =>
                       /\ Len(h) >= 2
                       /\ h[Len(h) - 1] = ToolUseMessage(r)
                       /\ h[Len(h)] =
                              [role |-> "user", type |-> "tool_result",
                               text |-> NoTag, tool |-> "", id |-> r.id,
                               result |-> <<Line("plain", 0, "Unknown tool", "")>>]

C7_Witness ==
    \E t \in Slots :
        /\ UnknownInvocation(turn[t].response)
        /\ turn[t].pc = "create"
        /\ turn[t].tools = 1
        /\ turn[t].hist0 # <<>>

\* -- vocabulary of the session claims
Completes(t) == turn[t].pc # "done" /\ turn'[t].pc = "done"
Range(seq) == {seq[i] : i \in DOMAIN seq}
\* the request a message belongs to, read off its text or tool-use id (0 for
\* the default answer text, which carries none)
RequestOf(m) ==
    IF m.id # NoTag THEN m.id[2]
    ELSE IF m.text # NoTag /\ m.text # FALLBACK_TEXT THEN m.text[2]
    ELSE 0
\* no message of request `req` is in the history
Without(history, req) == \A m \in Range(history) : RequestOf(m) # req

\* C8: with turns in flight on different session ids, in any interleaving,
\* the history a turn stores for its id is the history stored when it began
\* plus what the turn itself appended (what it produces when run alone); no
\* step of a turn changes the history stored under another id, and no stored
\* history holds a message of a turn on another id.
C8_AloneResult ==
    \A t \in Slots :
        /\ turn[t].pc = "done" => turn[t].returned = turn[t].hist0 \o turn[t].own
        /\ \A u \in Slots :
               (turn[t].req # 0 /\ turn[u].req # 0
                   /\ turn[t].session_id # turn[u].session_id)
                   => Without(Stored(turn[t].session_id), turn[u].req)

C8_Frame ==
    \A t \in Slots :
        /\ Completes(t) => Stored(turn[t].session_id)' = turn'[t].returned
        /\ turn'[t] # turn[t] =>
               \A id \in DOMAIN sessions :
                   id # turn'[t].session_id =>
                       id \in DOMAIN sessions' /\ Stored(id)' = Stored(id)

C8_DistinctSessionsIsolated == []C8_AloneResult /\ [][C8_Frame]_vars

\* two turns on different ids, the second received while the first was
\* suspended in its search, both finished and stored
C8_Witness ==
    /\ turn[1].pc = "done" /\ turn[2].pc = "done"
    /\ turn[1].session_id # turn[2].session_id
    /\ turn[1].searches = 1
    /\ turn[1].req < turn[2].req
    /\ Stored(turn[1].session_id) = turn[1].returned
    /\ Stored(turn[2].session_id) = turn[2].returned

\* C9: turns that supply no session id get ids that were not in the store and
\* that differ from each other, and each starts from an empty list of its
\* own: no message of one is ever in the other's history.
C9_FreshSessions ==
    \A t \in Slots :
        turn[t].generated =>
            /\ turn[t].session_id[1] = "uuid"
            /\ ~turn[t].present0
            /\ turn[t].hist0 = <<>>
            /\ \A u \in Slots \ {t} :
                   turn[u].generated =>
                       /\ turn[u].session_id # turn[t].session_id
                       /\ turn[u].messages # turn[t].messages
                       /\ Without(heap[turn[t].messages], turn[u].req)

\* two turns without a session id, both finished, the second received while
\* the first was in flight
C9_Witness ==
    /\ turn[1].generated /\ turn[2].generated
    /\ turn[1].pc = "done" /\ turn[2].pc = "done"
    /\ turn[1].session_id \in DOMAIN sessions
    /\ turn[2].session_id \in DOMAIN sessions

\* C10: a chat request starts from the history stored under the id it
\* supplies, from an empty history if there is none, and on success the
\* resulting history is stored under the supplied id, which is the session_id
\* of the reply.  `ids` are the supplied ids the statement is made for.
StartsFromSupplied(ids) ==
    \A t \in Slots, supplied \in ids :
        chat_endpoint(t, supplied) =>
            /\ turn'[t].session_id = supplied
            /\ heap'[turn'[t].messages] =
                   Stored(supplied) \o <<UserMessage(turn'[t].req)>>
StoresUnderSessionId ==
    \A t \in Slots :
        Completes(t) =>
            /\ turn'[t].reply.session_id = turn[t].session_id
            /\ turn[t].session_id \in DOMAIN sessions'
            /\ Stored(turn[t].session_id)' = turn[t].hist0 \o turn'[t].own

\* C10 as claimed: for every supplied session id
C10_SuppliedIdIsSessionId ==
    [][StartsFromSupplied(SuppliedIds \ {NoneId}) /\ StoresUnderSessionId]_vars

\* C10 amended: for every supplied session id that is not the empty string
C10_NonEmptySuppliedIdIsSessionId ==
    [][StartsFromSupplied({id \in SuppliedIds : Truthy(id)})
         /\ StoresUnderSessionId]_vars

\* a finished turn on a caller-chosen id that was not in the store, and one on
\* an id that was
C10_Witness ==
    \E t \in Slots :
        /\ turn[t].pc = "done"
        /\ ~turn[t].generated
        /\ turn[t].reply.session_id = turn[t].session_id
        /\ Stored(turn[t].session_id) = turn[t].returned
        /\ \/ turn[t].session_id = NamedId /\ ~turn[t].present0
           \/ turn[t].present0 /\ turn[t].hist0 # <<>>

\* -- vocabulary of the deletion claims
Deletes(session_id) == clear_session(session_id)

\* C11: DELETE of a session id answers {"status": "cleared"} whether or not
\* the id was in the store and never raises (the handler can always run to
\* its return); right after it the id is not in the store, and every other
\* id is still in the store with the history it had.
C11_DeleteStep ==
    \A session_id \in DeletableIds :
        Deletes(session_id) =>
            /\ cleared'.response = [status |-> "cleared"]
            /\ cleared'.present = (session_id \in DOMAIN sessions)
            /\ session_id \notin DOMAIN sessions'
            /\ \A other \in DOMAIN sessions \ {session_id} :
                   other \in DOMAIN sessions' /\ Stored(other)' = Stored(other)

C11_NeverRaises ==
    /\ running = 0 => \A session_id \in DeletableIds : ENABLED clear_session(session_id)
    /\ cleared # NoDelete => cleared.response = [status |-> "cleared"]

C11_DeleteIdempotentFrame == []C11_NeverRaises /\ [][C11_DeleteStep]_vars

\* the last DELETE named an id that was not in the store, while another
\* session was stored with a history
C11_Witness ==
    /\ cleared.response = [status |-> "cleared"]
    /\ ~cleared.present
    /\ NamedId \notin DOMAIN sessions
    /\ \E other \in DOMAIN sessions : Stored(other) # <<>>

\* -- vocabulary of the aggregator claims
\* search_all has been entered by the turn's current tool call and has not
\* yet returned or raised
InSearchAll(t) == turn[t].pc \in {"await_booking", "await_airbnb"}
\* the turn's last call of search_all is over (it returned or it raised)
SearchAllOver(t) == turn[t].searches >= 1 /\ ~InSearchAll(t)
Completed(task) == task.pc \in {"done", "raised"}

\* C12: search_all has created both sub-tasks when it first awaits, and it
\* is over (returned or raised) only when both sub-tasks have completed,
\* whichever completes first and whether or not one raised or returned empty.
C12_FanOutFanIn ==
    \A t \in Slots :
        /\ InSearchAll(t) => turn[t].booking.pc # "none" /\ turn[t].airbnb.pc # "none"
        /\ SearchAllOver(t) => Completed(turn[t].booking) /\ Completed(turn[t].airbnb)

\* provider A has a GET outstanding
BookingGetOutstanding(t) == turn[t].booking.pc \in {"dest", "hotels"}

\* C13: when the provider-A access key is absent, search_booking returns an
\* empty sequence without ever issuing an outbound GET, no search fails, and
\* search_all returns the empty provider-A entry together with what the
\* provider-B task returned under the provider-B key.
C13_MissingKeyDisablesProviderA ==
    ~api_key =>
        \A t \in Slots :
            /\ ~BookingGetOutstanding(t)
            /\ turn[t].booking.pc # "raised"
            /\ turn[t].booking.result = <<>>
            /\ turn[t].error # "tool"
            /\ SearchAllOver(t) =>
                   /\ turn[t].booking.pc = "done"
                   /\ turn[t].results =
                          [booking |-> <<>>, airbnb |-> turn[t].airbnb.result]

\* a finished turn that searched without the key, provider B having been
\* asked
C13_Witness ==
    /\ ~api_key
    /\ \E t \in Slots :
           /\ turn[t].pc = "done"
           /\ turn[t].searches = 1
           /\ turn[t].booking = [pc |-> "done", result |-> <<>>]
           /\ turn[t].airbnb.pc = "done"

\* -- vocabulary of the formatting claims
\* the turn's last tool call was a search and its result has been formatted
Formatted(t) ==
    /\ turn[t].pc \in {"append", "create"}
    /\ turn[t].response.tool = "search_rentals"
    /\ turn[t].tool_result # <<>>
IsHeading(line) == line.kind = "heading"
IsEntry(line) == line.kind = "entry"
IsHeadingOrEntry(line) == IsHeading(line) \/ IsEntry(line)
\* the headings and numbered entry lines of a text, in order
Outline(text) == SelectSeq(text, IsHeadingOrEntry)
\* the outline a source must have: nothing if it is empty, else its heading
\* and one entry line for each of its first min(5, n) listings, numbered from
\* 1 in the order of the listings
HeadingOf(source) == IF source = "booking" THEN "Booking" ELSE "Airbnb"
ExpectedOutline(source, listings) ==
    IF Len(listings) = 0 THEN <<>>
    ELSE <<[kind |-> "heading", n |-> 0, text |-> <<HeadingOf(source), " Results:">>]>>
         \o [i \in 1..(IF Len(listings) < 5 THEN Len(listings) ELSE 5) |->
                [kind |-> "entry", n |-> i, text |-> <<listings[i].name, "">>]]

\* C14: for every SearchResult the formatted text has, for each non-empty
\* source, that source's heading followed by exactly min(5, number of its
\* listings) entries numbered 1..n in the order of the listings, provider A's
\* group before provider B's; 7 listings of a source give 5 entries.
C14_FormattingCap ==
    \A t \in Slots :
        Formatted(t) =>
            /\ Outline(turn[t].tool_result) =
                   ExpectedOutline("booking", turn[t].results.booking)
                   \o ExpectedOutline("airbnb", turn[t].results.airbnb)
            /\ Len(turn[t].results.booking) = 7 =>
                   Len(SelectSeq(turn[t].tool_result, IsEntry)) =
                       5 + (IF Len(turn[t].results.airbnb) < 5
                            THEN Len(turn[t].results.airbnb) ELSE 5)

\* 7 listings of provider A and 3 of provider B have been formatted
C14_Witness ==
    /\ Formatted(1)
    /\ Len(turn[1].results.booking) = 7
    /\ Len(turn[1].results.airbnb) = 3
    /\ Len(SelectSeq(turn[1].tool_result, IsEntry)) = 8

\* C15: the search tool's result is exactly the fixed "no results" message if
\* and only if every source's sequence is empty, and a source with an empty
\* sequence contributes no heading and no entries when the other is not empty.
AllEmpty(results) == results.booking = <<>> /\ results.airbnb = <<>>
HeadingsOf(text) == {text[i].text[1] : i \in {j \in DOMAIN text : IsHeading(text[j])}}

C15_EmptyResults ==
    \A t \in Slots :
        Formatted(t) =>
            LET results == turn[t].results
                text == turn[t].tool_result
            IN  /\ AllEmpty(results) <=>
                       text = <<[kind |-> "plain", n |-> 0,
                                 text |-> <<"No results found. Try a different location or dates.", "">>]>>
                /\ ~AllEmpty(results) =>
                       /\ (results.booking = <<>>) <=> ("Booking" \notin HeadingsOf(text))
                       /\ (results.airbnb = <<>>) <=> ("Airbnb" \notin HeadingsOf(text))
                       /\ Len(SelectSeq(text, IsEntry)) =
                              Len(ExpectedOutline("booking", results.booking))
                              + Len(ExpectedOutline("airbnb", results.airbnb))
                              - Cardinality(HeadingsOf(text))

\* an empty provider-A sequence has been formatted next to a non-empty
\* provider-B sequence, and the result is in the history
C15_Witness ==
    /\ Formatted(1)
    /\ turn[1].pc = "create"
    /\ turn[1].results.booking = <<>>
    /\ turn[1].results.airbnb # <<>>
    /\ HeadingsOf(turn[1].tool_result) = {"Airbnb"}

\* -- vocabulary of the normalization claim
\* the provider-A task of turn t takes the searchHotels response `outcome`
Normalizes(t, outcome) == outcome.kind = "ok" /\ hotels_response(t, outcome)
\* in the listing, each field whose data the record lacks is absent
MissingFieldsAbsent(prop, listing) ==
    /\ prop.name = Missing => listing.name = None
    /\ prop.price = Missing => listing.price = None
    /\ prop.reviewScore = Missing => listing.rating = None
    /\ prop.photoUrl = Missing => listing.image_url = None
    /\ (prop.countryCode = Missing /\ prop.ufi = Missing) => listing.url = None

\* C16: normalization of a searchHotels body never raises, and in the
\* Listing of each hotel record every field whose provider data (name, price
\* breakdown, review score, photo urls, country code / ufi) is missing is
\* absent, not a placeholder.
C16_MissingFieldsAbsent ==
    [][\A t \in Slots, outcome \in HotelsOutcomes :
          Normalizes(t, outcome) =>
              LET listings == turn'[t].booking.result
              IN  /\ turn'[t].booking.pc = "done"
                  /\ Len(listings) = Len(outcome.body)
                  /\ \A i \in DOMAIN listings :
                         MissingFieldsAbsent(outcome.body[i], listings[i])]_vars

\* -- vocabulary of the same-session race
SameSession(t, u) ==
    /\ t # u
    /\ turn[t].req # 0 /\ turn[u].req # 0
    /\ turn[t].session_id = turn[u].session_id
\* what the two turns give when run one after the other from an empty history
SerialOrders(t, u) == {turn[t].own \o turn[u].own, turn[u].own \o turn[t].own}

\* C17: nothing keeps a second turn off a session id that has a turn in
\* flight: while a turn is suspended, a chat request on its id is accepted
\* whenever the server can take a request; and two turns on one id that both
\* began while the id was not in the store work on different lists, neither
\* holding a message of the other, so the one stored last loses the other's
\* messages (C17_Witness is that final state).
C17_SameSessionUnprotected ==
    \A t \in Slots :
        /\ (InFlight(t) /\ running = 0 /\ nreq < MaxRequests
               /\ turn[t].session_id \in SuppliedIds /\ \E s \in Slots : Free(s))
              => \E s \in Slots : ENABLED chat_endpoint(s, turn[t].session_id)
        /\ \A u \in Slots :
               (SameSession(t, u) /\ ~turn[t].present0 /\ ~turn[u].present0)
                  => /\ turn[t].messages # turn[u].messages
                     /\ Without(heap[turn[t].messages], turn[u].req)

\* two turns on one id have finished, the second received while the first
\* was suspended in its search (no DELETE was made); the stored history is
\* neither serial order of the two: the first turn's messages are lost
C17_Witness ==
    \E t, u \in Slots :
        /\ SameSession(t, u)
        /\ cleared = NoDelete
        /\ turn[t].pc = "done" /\ turn[u].pc = "done"
        /\ turn[t].req < turn[u].req
        /\ turn[t].searches = 1
        /\ turn[t].hist0 = <<>> /\ turn[u].hist0 = <<>>
        /\ turn[t].session_id \in DOMAIN sessions
        /\ Stored(turn[t].session_id) \notin SerialOrders(t, u)
        /\ \/ Without(Stored(turn[t].session_id), turn[t].req)
           \/ Without(Stored(turn[t].session_id), turn[u].req)

\* -- vocabulary of the loop-termination claim
AllInvocations(rs, n) == \A i \in 1..n : Invocation(rs[i])
\* the model service follows the script [k invocations, one non-tool
\* response]: so far it has answered a prefix of such a script
ScriptedKToolsThenText(t) ==
    LET rs == turn[t].responses
    IN  /\ turn[t].error # "model"
        /\ Len(rs) >= 1
        /\ AllInvocations(rs, Len(rs) - 1)
        /\ Invocation(rs[Len(rs)]) \/ rs[Len(rs)].stop_reason # "tool_use"
\* the model service has requested a tool on every response so far
ToolOnEveryResponse(t) ==
    Len(turn[t].responses) >= 1 /\ AllInvocations(turn[t].responses, Len(turn[t].responses))
\* the store holds nothing of the turn: its id has the history it had when the
\* turn began, or no history
NotCommitted(t) ==
    turn[t].session_id \in DOMAIN sessions =>
        turn[t].present0 /\ Stored(turn[t].session_id) = turn[t].hist0

\* C18: a turn for which the model service answers k tool invocations and
\* then a non-tool response ends only in DONE, after exactly k+1 model calls
\* and k tool executions; as long as every response has requested a tool the
\* turn is not in DONE and, while it runs, nothing of it is in the session
\* store.
C18_LoopRunsWithTheModel ==
    \A t \in Slots :
        /\ (Ended(t) /\ ScriptedKToolsThenText(t)) =>
               LET rs == turn[t].responses
               IN  /\ turn[t].pc = "done"
                   /\ rs[Len(rs)].stop_reason # "tool_use"
                   /\ turn[t].calls = Len(rs)
                   /\ turn[t].tools = Len(rs) - 1
        /\ ToolOnEveryResponse(t) => turn[t].pc # "done"
        /\ (ToolOnEveryResponse(t) /\ InFlight(t)) => NotCommitted(t)

\* -- vocabulary of the history claims
IsPrefix(a, b) == Len(a) <= Len(b) /\ SubSeq(b, 1, Len(a)) = a
IsToolUse(m) == m.role = "assistant" /\ m.tool # "" /\ m.id # NoTag
IsToolResult(m) == m.type = "tool_result"
IsPlainAnswer(m) == m.role = "assistant" /\ m.type = "text" /\ m.tool = ""
WellFormed(h) ==
    /\ Len(h) >= 2
    /\ \A i \in DOMAIN h : h[i].role = (IF i % 2 = 1 THEN "user" ELSE "assistant")
    /\ IsPlainAnswer(h[Len(h)])
    /\ \A i \in DOMAIN h :
           IsToolResult(h[i]) =>
               i > 1 /\ IsToolUse(h[i - 1]) /\ h[i - 1].id = h[i].id

\* C19: with at most one turn in flight per session id and no failed turn,
\* every history stored under an id that has no turn in flight alternates
\* user, assistant, ... from a user message to a final plain-text assistant
\* message, each tool-result message directly follows the assistant tool-use
\* message with the same call id, and no step changes a stored history other
\* than by appending to it.
C19_Quiescent ==
    \A session_id \in DOMAIN sessions :
        ~TurnOn(session_id) => WellFormed(Stored(session_id))

C19_AppendOnly ==
    \A session_id \in DOMAIN sessions :
        session_id \in DOMAIN sessions' => IsPrefix(Stored(session_id), Stored(session_id)')

C19_HistoryWellFormed == []C19_Quiescent /\ [][C19_AppendOnly]_vars

\* two turns on one id have completed, the second with a tool round on top
\* of the first turn's history
C19_Witness ==
    \E t \in Slots :
        /\ turn[t].pc = "done"
        /\ turn[t].hist0 # <<>>
        /\ turn[t].tools = 1
        /\ Stored(turn[t].session_id) = turn[t].returned
        /\ Len(turn[t].returned) >= 6
        /\ ~TurnOn(turn[t].session_id)

\* -- vocabulary of deletion against a turn in flight
\* the turn began on an id that was in the store and is not any more: with
\* one turn in flight per id, a DELETE of the id ran while the turn was in
\* flight
DeletedInFlight(t) ==
    turn[t].present0 /\ turn[t].session_id \notin DOMAIN sessions

\* C20: when a turn completes whose session id was deleted while the turn
\* was in flight, the id stays absent from the store: the turn does not
\* re-create the session (with the history from before the deletion).
C20_DeletedStaysDeleted ==
    [][\A t \in Slots :
          (Completes(t) /\ DeletedInFlight(t))
              => turn[t].session_id \notin DOMAIN sessions']_vars

====
